---- MODULE Spec2Model ----
(***************************************************************************)
(* A model of remote/client.go: the RemoteManager lease protocol client    *)
(* (GetNetworkConfig, AcquireLease, RenewLease, WatchLeases) and the       *)
(* cancellable executor httpDo underneath it.                              *)
(*                                                                         *)
(* One call is in progress at a time.  A call is made of the caller's     *)
(* steps (pc), the steps of the goroutine httpDo starts (gstate), the     *)
(* transport's completion of client.Do and the firing of the context's    *)
(* cancellation signal, all interleaved freely.                            *)
(***************************************************************************)
EXTENDS Integers, Sequences, FiniteSets, TLC

\* ------------------------------------------------------------------ bounds
\* The largest value a field of a JSON body takes (0: the field is absent).
MaxField == 1

\* ------------------------------------------------------------------ values
\* http.StatusOK
StatusOK == 200

\* The HTTP statuses a server answers with.
Statuses == {200, 201, 204, 400, 404, 500}

Ops == {"GetNetworkConfig", "AcquireLease", "RenewLease", "WatchLeases"}

\* The dynamic values a cursor (interface{}) can hold: nil, a string, or
\* something else (a JSON number decodes to float64, an object to a map).
NilCursor == [type |-> "nil", v |-> ""]

StringCursors == {[type |-> "string", v |-> "abc"], [type |-> "string", v |-> "xyz"]}

OtherCursors == {[type |-> "number", v |-> "42"], [type |-> "object", v |-> "{}"]}

CursorValues == {NilCursor} \cup StringCursors \cup OtherCursors

\* c, ok := cursor.(string)
IsString(cur) == cur.type = "string"

\* A subnet.Lease as far as this file touches it: a record overwritten as a
\* whole.  0 is a field's zero value.
ZeroLease == [Subnet |-> 0, Expiration |-> 0]

\* The lease the caller holds before its first RenewLease.
InitialLease == [Subnet |-> MaxField + 1, Expiration |-> MaxField + 1]

\* subnet.WatchResult{}
EmptyWatchResult == [Cursor |-> NilCursor, Events |-> 0]

\* A nil *subnet.Config, *subnet.Lease or *http.Response.
NilPtr == [nil |-> TRUE]

\* A nil error.
NoErr == [kind |-> "nil"]

\* Errors of the transport (client.Do); "request canceled" is what the
\* transport answers when it reacts to CancelRequest.
ConnError == [kind |-> "transport", what |-> "connection refused"]

AbortError == [kind |-> "transport", what |-> "request canceled"]

\* ctx.Err() once ctx.Done() is closed.
CtxErrors == {[kind |-> "context", what |-> "canceled"],
              [kind |-> "context", what |-> "deadline exceeded"]}

\* A response: its status, its body's text, whether reading the body fails
\* (ioutil.ReadAll), whether the body is well-formed JSON of the expected
\* shape (Decode succeeds), and the fields the JSON carries.  A field of 0 is
\* absent from the JSON text.
NoFields == [Network |-> 0, Subnet |-> 0, Expiration |-> 0, Events |-> 0,
             Cursor |-> NilCursor]

BodiesFor(o) ==
    CASE o = "GetNetworkConfig" ->
           {[NoFields EXCEPT !.Network = n] : n \in 0..MaxField}
      [] o \in {"AcquireLease", "RenewLease"} ->
           {[NoFields EXCEPT !.Subnet = s, !.Expiration = e] :
              s \in 0..MaxField, e \in 0..MaxField}
      [] o = "WatchLeases" ->
           {[NoFields EXCEPT !.Cursor = cur, !.Events = 1] : cur \in CursorValues}
      [] OTHER -> {}

\* The body texts of the server's error answers.
ErrorTexts == {"no such network", "internal error"}

\* The responses client.Do can produce for operation o.
ResponsesFor(o) ==
    {[status |-> StatusOK, text |-> "json", readErr |-> FALSE, valid |-> ok,
      fields |-> f] : ok \in BOOLEAN, f \in BodiesFor(o)}
    \cup
    {[status |-> s, text |-> t, readErr |-> FALSE, valid |-> FALSE,
      fields |-> NoFields] : s \in Statuses \ {StatusOK}, t \in ErrorTexts}
    \cup
    {[status |-> s, text |-> "", readErr |-> TRUE, valid |-> FALSE,
      fields |-> NoFields] : s \in Statuses \ {StatusOK}}

\* httpRespErr{resp, err} as client.Do produces it: a response and a nil
\* error, or a nil response and an error.
ResultsFor(o) ==
    {[resp |-> r, err |-> NoErr] : r \in ResponsesFor(o)}
    \cup {[resp |-> NilPtr, err |-> ConnError]}

NoResult == [resp |-> NilPtr, err |-> NoErr]

\* No address is being built.
NoUrl == [pc |-> "none"]

\* No concurrent calls are running.
NoCalls == [pc |-> "none"]

\* ------------------------------------------------------------------ state
VARIABLES
    op,           \* the operation in progress, "none" between calls
    cursor,       \* WatchLeases' cursor argument
    lease,        \* the caller's Lease (the target of RenewLease's pointer)
    lease0,       \* its value when the call in progress started
    pc,           \* the caller's position
    req,          \* the *http.Request built, or NilPtr
    gstate,       \* the goroutine started by httpDo
    tres,         \* resp, err := client.Do(req), once it has completed
    c,            \* the channel c of httpDo (capacity 1)
    sends,        \* messages sent on c during this call
    ctxDone,      \* ctx.Done() is closed
    ctxErr,       \* ctx.Err()
    cancelReqs,   \* calls of tr.CancelRequest during this call
    attempts,     \* calls of client.Do during this call
    branch,       \* the select case taken by httpDo
    hret,         \* what httpDo returned
    newLease,     \* the decode target of the lease operations
    decoded,      \* whether a Decode of the response body has run
    aborting,     \* the transport is aborting the request in flight
    bodyClosed,   \* resp.Body.Close() has run on the response httpDo returned
    result,       \* what the operation returned: [val, err]
    hist,         \* what was the case at the moments the claims speak of
    lastCursor,   \* the cursor of the caller's last successful WatchResult
    u,            \* the address building of one operation: mkurl and its callers
    k             \* the httpDo calls of operations running concurrently

vars == <<op, cursor, lease, lease0, pc, req, gstate, tres, c, sends,
          ctxDone, ctxErr, cancelReqs, attempts, branch, hret,
          newLease, decoded, aborting, bodyClosed, result, hist,
          lastCursor, u, k>>

\* What a single call leaves alone: the caller's cursor bookkeeping, the
\* address building and the concurrent calls, which have their own
\* specifications below.
aux == <<lastCursor, u, k>>

NoHist == [doneAtComplete |-> FALSE, doneAtSend |-> FALSE,
           doneAtSelect |-> FALSE, chanAtSelect |-> 0]

NoReturn == [val |-> NilPtr, err |-> NoErr]

\* No call is in progress; the caller holds a lease.
InitCall ==
    /\ op = "none"
    /\ cursor = NilCursor
    /\ lease = InitialLease
    /\ lease0 = InitialLease
    /\ pc = "idle"
    /\ req = NilPtr
    /\ gstate = "none"
    /\ tres = NoResult
    /\ c = <<>>
    /\ sends = 0
    /\ ctxDone = FALSE
    /\ ctxErr = NoErr
    /\ cancelReqs = 0
    /\ attempts = 0
    /\ branch = "none"
    /\ hret = NoResult
    /\ newLease = ZeroLease
    /\ decoded = FALSE
    /\ aborting = FALSE
    /\ bodyClosed = FALSE
    /\ result = NoReturn
    /\ hist = NoHist

\* NewRemoteManager, no call made yet; the caller holds a lease.
Init ==
    /\ InitCall
    /\ lastCursor = NilCursor
    /\ u = NoUrl
    /\ k = NoCalls

\* ------------------------------------------------------------------ errors
\* fmt.Errorf("internal error: RemoteManager.WatchLeases received non-string cursor")
CursorUsageError == [kind |-> "usage", what |-> "received non-string cursor"]

\* fmt.Errorf("lease watch returned non-string cursor")
CursorProtocolError == [kind |-> "protocol", what |-> "returned non-string cursor"]

\* The error of json.Marshal.
MarshalError == [kind |-> "marshal", what |-> "json"]

\* The error of http.NewRequest.
RequestError == [kind |-> "request", what |-> "new request"]

\* The error of json.Decoder.Decode.
DecodeError == [kind |-> "decode", what |-> "json"]

\* The error of ioutil.ReadAll.
ReadError == [kind |-> "read", what |-> "body"]

\* fmt.Errorf("%v: %v", resp.Status, string(b))
StatusError(resp) == [kind |-> "status", status |-> resp.status, body |-> resp.text]

\* httpError ignoring the error of ioutil.ReadAll.
httpErrorIgnoresReadErr(resp) == StatusError(resp)

\* httpError(resp)
httpError(resp) == IF resp.readErr THEN ReadError ELSE StatusError(resp)

\* ------------------------------------------------------------------ helpers
\* The value an operation returns beside a non-nil error.
NilValue(o) == IF o = "WatchLeases" THEN EmptyWatchResult ELSE NilPtr

\* The method of the request an operation builds.
Method(o) ==
    CASE o = "AcquireLease" -> "POST"
      [] o = "RenewLease" -> "PUT"
      [] OTHER -> "GET"

\* Whether the operation has a defer resp.Body.Close() after its error
\* check: GetNetworkConfig, AcquireLease and RenewLease do, WatchLeases
\* does not.
DefersClose(o) == o \in {"GetNetworkConfig", "AcquireLease", "RenewLease"}

\* CursorAccepted without the type assertion's ok.
CursorAcceptedAny(cur) == TRUE

\* if cursor != nil { c, ok := cursor.(string); if !ok { return ... } }
CursorAccepted(cur) == cur = NilCursor \/ IsString(cur)

\* json.NewDecoder(resp.Body).Decode(target) for a Lease: the fields present
\* in the body overwrite the target's, the others keep the target's value.
DecodeLease(target, resp) ==
    [Subnet |-> IF resp.fields.Subnet # 0 THEN resp.fields.Subnet ELSE target.Subnet,
     Expiration |-> IF resp.fields.Expiration # 0 THEN resp.fields.Expiration
                    ELSE target.Expiration]

\* Decode into a fresh subnet.Config{}.
DecodeConfig(resp) == [Network |-> resp.fields.Network]

\* Decode into a fresh subnet.WatchResult{}.
DecodeWatchResult(resp) == [Cursor |-> resp.fields.Cursor, Events |-> resp.fields.Events]

\* The per-call variables as they are between calls.
Cleared ==
    /\ op' = "none"
    /\ cursor' = NilCursor
    /\ req' = NilPtr
    /\ gstate' = "none"
    /\ tres' = NoResult
    /\ c' = <<>>
    /\ sends' = 0
    /\ ctxDone' = FALSE
    /\ ctxErr' = NoErr
    /\ cancelReqs' = 0
    /\ attempts' = 0
    /\ branch' = "none"
    /\ hret' = NoResult
    /\ newLease' = ZeroLease
    /\ decoded' = FALSE
    /\ aborting' = FALSE
    /\ bodyClosed' = FALSE
    /\ result' = NoReturn
    /\ hist' = NoHist

\* ------------------------------------------------------------------ the caller
\* The entry of an operation up to its call of httpDo: mkurl, the cursor
\* check of WatchLeases, json.Marshal of the lease operations, and
\* http.NewRequest in httpGet / httpPutPost.
\*   ctx0         ctx.Err() at entry (NoErr: not cancelled yet)
\*   marshalFails json.Marshal fails
\*   badURL       http.NewRequest fails
Call(o, cur, ctx0, marshalFails, badURL) ==
    /\ pc = "idle"
    /\ op' = o
    /\ cursor' = cur
    /\ lease0' = lease
    /\ ctxDone' = (ctx0 # NoErr)
    /\ ctxErr' = ctx0
    /\ IF o = "WatchLeases" /\ ~CursorAccepted(cur)
       THEN /\ result' = [val |-> EmptyWatchResult, err |-> CursorUsageError]
            /\ pc' = "done"
            /\ req' = NilPtr
       ELSE IF o \in {"AcquireLease", "RenewLease"} /\ marshalFails
       THEN /\ result' = [val |-> NilPtr, err |-> MarshalError]
            /\ pc' = "done"
            /\ req' = NilPtr
       ELSE IF badURL
       THEN /\ result' = [val |-> NilValue(o), err |-> RequestError]
            /\ pc' = "done"
            /\ req' = NilPtr
       ELSE /\ result' = NoReturn
            /\ pc' = "httpDo"
            /\ req' = [method |-> Method(o), next |-> cur]
    /\ UNCHANGED <<aux, bodyClosed>>
    /\ UNCHANGED <<lease, gstate, tres, c, sends, cancelReqs, attempts, branch,
                   hret, newLease, decoded, aborting, hist>>

\* httpDo: tr, client, c := ...; go func() { ... }()
Spawn ==
    /\ pc = "httpDo"
    /\ gstate' = "started"
    /\ pc' = "select"
    /\ UNCHANGED <<aux, bodyClosed>>
    /\ UNCHANGED <<op, cursor, lease, lease0, req, tres, c, sends,
                   ctxDone, ctxErr, cancelReqs, attempts, branch,
                   hret, newLease, decoded, aborting, result, hist>>

\* SelectDone without the abort: the cancellation branch goes straight to
\* its <-c.
SelectDoneNoAbort ==
    /\ pc = "select"
    /\ ctxDone
    /\ branch' = "done"
    /\ pc' = "drain"
    /\ hist' = [hist EXCEPT !.doneAtSelect = TRUE, !.chanAtSelect = Len(c)]
    /\ UNCHANGED <<aux, bodyClosed>>
    /\ UNCHANGED <<op, cursor, lease, lease0, req, gstate, tres, c,
                   sends, ctxDone, ctxErr, cancelReqs, attempts,
                   hret, newLease, decoded, aborting, result>>

\* select { case <-ctx.Done(): ...
SelectDone ==
    /\ pc = "select"
    /\ ctxDone
    /\ branch' = "done"
    /\ pc' = "cancel"
    /\ hist' = [hist EXCEPT !.doneAtSelect = TRUE, !.chanAtSelect = Len(c)]
    /\ UNCHANGED <<aux, bodyClosed>>
    /\ UNCHANGED <<op, cursor, lease, lease0, req, gstate, tres, c,
                   sends, ctxDone, ctxErr, cancelReqs, attempts,
                   hret, newLease, decoded, aborting, result>>

\* RecvReturn with the error dropped: return r.resp, nil
RecvReturnDropsErr(r) == [resp |-> r.resp, err |-> NoErr]

\* What the case r := <-c hands back: return r.resp, r.err
RecvReturn(r) == [resp |-> r.resp, err |-> r.err]

\* select { ... case r := <-c: return r.resp, r.err }
SelectRecv ==
    /\ pc = "select"
    /\ Len(c) > 0
    /\ branch' = "recv"
    /\ hret' = RecvReturn(Head(c))
    /\ c' = Tail(c)
    /\ pc' = "ret"
    /\ hist' = [hist EXCEPT !.doneAtSelect = ctxDone, !.chanAtSelect = Len(c)]
    /\ UNCHANGED <<aux, bodyClosed>>
    /\ UNCHANGED <<op, cursor, lease, lease0, req, gstate, tres, sends,
                   ctxDone, ctxErr, cancelReqs, attempts, newLease,
                   decoded, aborting, result>>

\* tr.CancelRequest(req): a transport that reacts to it aborts the request
\* if it is in flight, and does nothing for a request it has not been handed
\* yet or has already answered; a transport that ignores it does nothing.
CancelRequest(reacts) ==
    /\ pc = "cancel"
    /\ cancelReqs' = cancelReqs + 1
    /\ aborting' = (reacts /\ gstate = "doing")
    /\ pc' = "drain"
    /\ UNCHANGED <<aux, bodyClosed>>
    /\ UNCHANGED <<op, cursor, lease, lease0, req, gstate, tres, c,
                   sends, ctxDone, ctxErr, attempts, branch, hret,
                   newLease, decoded, result, hist>>

\* DrainReturn handing back the aborted operation's error: return nil, r.err
DrainReturnOpErr(r, cerr) == [resp |-> NilPtr, err |-> r.err]

\* DrainReturn keeping the drained response: return r.resp, ctx.Err()
DrainReturnKeepsResp(r, cerr) == [resp |-> r.resp, err |-> cerr]

\* What the cancellation branch hands back: return nil, ctx.Err()
DrainReturn(r, cerr) == [resp |-> NilPtr, err |-> cerr]

\* Drain without the wait: the cancellation branch returns right after
\* CancelRequest, whether or not the goroutine has sent.
DrainNoWait ==
    /\ pc = "drain"
    /\ hret' = [resp |-> NilPtr, err |-> ctxErr]
    /\ pc' = "ret"
    /\ UNCHANGED <<aux, bodyClosed>>
    /\ UNCHANGED <<op, cursor, lease, lease0, req, gstate, tres, c, sends,
                   ctxDone, ctxErr, cancelReqs, attempts, branch,
                   newLease, decoded, aborting, result, hist>>

\* <-c // Wait for f to return.   return nil, ctx.Err()
Drain ==
    /\ pc = "drain"
    /\ Len(c) > 0
    /\ hret' = DrainReturn(Head(c), ctxErr)
    /\ c' = Tail(c)
    /\ pc' = "ret"
    /\ UNCHANGED <<aux, bodyClosed>>
    /\ UNCHANGED <<op, cursor, lease, lease0, req, gstate, tres, sends,
                   ctxDone, ctxErr, cancelReqs, attempts, branch,
                   newLease, decoded, aborting, result, hist>>

\* ------------------------------------------------------------------ the goroutine
\* Capacity of the channel: c := make(chan httpRespErr, 1)
ChanCap == 1

\* go func() { resp, err := client.Do(req) ...: the call of client.Do
GoDo ==
    /\ gstate = "started"
    /\ gstate' = "doing"
    /\ attempts' = attempts + 1
    /\ UNCHANGED <<aux, bodyClosed>>
    /\ UNCHANGED <<op, cursor, lease, lease0, pc, req, tres, c, sends,
                   ctxDone, ctxErr, cancelReqs, branch, hret,
                   newLease, decoded, aborting, result, hist>>

\* client.Do returns on its own: the server's response or a transport error.
TransportComplete(r) ==
    /\ gstate = "doing"
    /\ r \in ResultsFor(op)
    /\ tres' = r
    /\ gstate' = "completed"
    /\ hist' = [hist EXCEPT !.doneAtComplete = ctxDone]
    /\ UNCHANGED <<aux, bodyClosed>>
    /\ UNCHANGED <<op, cursor, lease, lease0, pc, req, c, sends,
                   ctxDone, ctxErr, cancelReqs, attempts, branch,
                   hret, newLease, decoded, aborting, result>>

\* client.Do returns because the transport reacted to CancelRequest.
TransportAbort ==
    /\ gstate = "doing"
    /\ aborting
    /\ tres' = [resp |-> NilPtr, err |-> AbortError]
    /\ gstate' = "completed"
    /\ hist' = [hist EXCEPT !.doneAtComplete = ctxDone]
    /\ UNCHANGED <<aux, bodyClosed>>
    /\ UNCHANGED <<op, cursor, lease, lease0, pc, req, c, sends,
                   ctxDone, ctxErr, cancelReqs, attempts, branch,
                   hret, newLease, decoded, aborting, result>>

\* GoSend sending only a response: on an error of client.Do the goroutine
\* ends without a send.
GoSendOnlyResponse ==
    /\ gstate = "completed"
    /\ Len(c) < ChanCap
    /\ c' = IF tres.err = NoErr THEN Append(c, tres) ELSE c
    /\ sends' = IF tres.err = NoErr THEN sends + 1 ELSE sends
    /\ gstate' = "finished"
    /\ hist' = [hist EXCEPT !.doneAtSend = ctxDone]
    /\ UNCHANGED <<aux, bodyClosed>>
    /\ UNCHANGED <<op, cursor, lease, lease0, pc, req, tres, ctxDone,
                   ctxErr, cancelReqs, attempts, branch, hret,
                   newLease, decoded, aborting, result>>

\* GoSend in a loop: the goroutine sends its result and goes on to send again.
GoSendAgain ==
    /\ gstate = "completed"
    /\ Len(c) < ChanCap
    /\ c' = Append(c, tres)
    /\ sends' = sends + 1
    /\ gstate' = "completed"
    /\ hist' = [hist EXCEPT !.doneAtSend = ctxDone]
    /\ UNCHANGED <<aux, bodyClosed>>
    /\ UNCHANGED <<op, cursor, lease, lease0, pc, req, tres, ctxDone,
                   ctxErr, cancelReqs, attempts, branch, hret,
                   newLease, decoded, aborting, result>>

\* c <- httpRespErr{resp, err}; the goroutine ends.
GoSend ==
    /\ gstate = "completed"
    /\ Len(c) < ChanCap
    /\ c' = Append(c, tres)
    /\ sends' = sends + 1
    /\ gstate' = "finished"
    /\ hist' = [hist EXCEPT !.doneAtSend = ctxDone]
    /\ UNCHANGED <<aux, bodyClosed>>
    /\ UNCHANGED <<op, cursor, lease, lease0, pc, req, tres, ctxDone,
                   ctxErr, cancelReqs, attempts, branch, hret,
                   newLease, decoded, aborting, result>>

\* ------------------------------------------------------------------ the context
\* The cancellation signal fires (cancel() or the deadline) during a call.
Cancel(e) ==
    /\ pc \notin {"idle", "done"}
    /\ ~ctxDone
    /\ e \in CtxErrors
    /\ ctxDone' = TRUE
    /\ ctxErr' = e
    /\ UNCHANGED <<aux, bodyClosed>>
    /\ UNCHANGED <<op, cursor, lease, lease0, pc, req, gstate, tres, c,
                   sends, cancelReqs, attempts, branch, hret,
                   newLease, decoded, aborting, result, hist>>

\* ------------------------------------------------------------------ after httpDo
\* CheckErr wrapping the executor's error: fmt.Errorf("request failed: %v", err)
CheckErrWraps ==
    /\ pc = "ret"
    /\ IF hret.err # NoErr
       THEN /\ result' = [val |-> NilValue(op),
                          err |-> [kind |-> "wrapped", cause |-> hret.err]]
            /\ pc' = "done"
       ELSE /\ result' = result
            /\ pc' = "status"
    /\ UNCHANGED <<aux, bodyClosed>>
    /\ UNCHANGED <<op, cursor, lease, lease0, req, gstate, tres, c,
                   sends, ctxDone, ctxErr, cancelReqs, attempts,
                   branch, hret, newLease, decoded, aborting, hist>>

\* CheckErr with a retry: a failed httpDo is called again.
CheckErrRetry ==
    /\ pc = "ret"
    /\ IF hret.err # NoErr
       THEN /\ result' = result
            /\ pc' = "httpDo"
       ELSE /\ result' = result
            /\ pc' = "status"
    /\ UNCHANGED <<aux, bodyClosed>>
    /\ UNCHANGED <<op, cursor, lease, lease0, req, gstate, tres, c,
                   sends, ctxDone, ctxErr, cancelReqs, attempts,
                   branch, hret, newLease, decoded, aborting, hist>>

\* resp, err := httpGet(...) / httpPutPost(...); if err != nil { return ..., err }
CheckErr ==
    /\ pc = "ret"
    /\ IF hret.err # NoErr
       THEN /\ result' = [val |-> NilValue(op), err |-> hret.err]
            /\ pc' = "done"
       ELSE /\ result' = result
            /\ pc' = "status"
    /\ UNCHANGED <<aux, bodyClosed>>
    /\ UNCHANGED <<op, cursor, lease, lease0, req, gstate, tres, c,
                   sends, ctxDone, ctxErr, cancelReqs, attempts,
                   branch, hret, newLease, decoded, aborting, hist>>

\* IsFailure taking every 2xx status for a success.
IsFailureNot2xx(resp) == resp.status < 200 \/ resp.status >= 300

\* resp.StatusCode != http.StatusOK
IsFailure(resp) == resp.status # StatusOK

\* if resp.StatusCode != http.StatusOK { return ..., httpError(resp) }; the
\* deferred resp.Body.Close() runs as the operation returns.
CheckStatus ==
    /\ pc = "status"
    /\ IF IsFailure(hret.resp)
       THEN /\ result' = [val |-> NilValue(op), err |-> httpError(hret.resp)]
            /\ bodyClosed' = DefersClose(op)
            /\ pc' = "done"
       ELSE /\ result' = result
            /\ bodyClosed' = bodyClosed
            /\ pc' = "decode"
    /\ UNCHANGED aux
    /\ UNCHANGED <<op, cursor, lease, lease0, req, gstate, tres, c,
                   sends, ctxDone, ctxErr, cancelReqs, attempts,
                   branch, hret, newLease, decoded, aborting, hist>>

\* GetNetworkConfig: decode a Config and return it.
ConfigOutcome(resp) ==
    IF resp.valid THEN [val |-> DecodeConfig(resp), err |-> NoErr]
    ELSE [val |-> NilPtr, err |-> DecodeError]

\* AcquireOutcome returning the half-decoded lease beside the decode error.
AcquireOutcomeKeepsPartial(resp) ==
    [val |-> DecodeLease(ZeroLease, resp),
     err |-> IF resp.valid THEN NoErr ELSE DecodeError]

\* AcquireLease: decode a Lease and return it.
AcquireOutcome(resp) ==
    IF resp.valid THEN [val |-> DecodeLease(ZeroLease, resp), err |-> NoErr]
    ELSE [val |-> NilPtr, err |-> DecodeError]

\* RenewOutcome decoding straight into the caller's lease: Decode(lease).
RenewOutcomeInPlace(l, resp) ==
    [lease |-> DecodeLease(l, resp),
     err |-> IF resp.valid THEN NoErr ELSE DecodeError]

\* RenewLease: newLease := &subnet.Lease{}; Decode(newLease); on success
\* *lease = *newLease.  Gives the caller's lease afterwards and the error.
RenewOutcome(l, resp) ==
    IF resp.valid THEN [lease |-> DecodeLease(ZeroLease, resp), err |-> NoErr]
    ELSE [lease |-> l, err |-> DecodeError]

\* WatchOutcome without the check of the decoded cursor's type.
WatchOutcomeUnchecked(resp) ==
    IF ~resp.valid THEN [val |-> EmptyWatchResult, err |-> DecodeError]
    ELSE [val |-> DecodeWatchResult(resp), err |-> NoErr]

\* WatchLeases: decode a WatchResult, then check its cursor's type.
WatchOutcome(resp) ==
    IF ~resp.valid THEN [val |-> EmptyWatchResult, err |-> DecodeError]
    ELSE IF ~IsString(DecodeWatchResult(resp).Cursor)
    THEN [val |-> EmptyWatchResult, err |-> CursorProtocolError]
    ELSE [val |-> DecodeWatchResult(resp), err |-> NoErr]

\* The rest of an operation once the status is 200; the deferred
\* resp.Body.Close() runs as the operation returns.
Decode ==
    /\ pc = "decode"
    /\ decoded' = TRUE
    /\ pc' = "done"
    /\ CASE op = "GetNetworkConfig" ->
              /\ result' = ConfigOutcome(hret.resp)
              /\ UNCHANGED <<lease, newLease>>
         [] op = "AcquireLease" ->
              /\ result' = AcquireOutcome(hret.resp)
              /\ newLease' = DecodeLease(ZeroLease, hret.resp)
              /\ UNCHANGED lease
         [] op = "RenewLease" ->
              /\ result' = [val |-> NilPtr, err |-> RenewOutcome(lease, hret.resp).err]
              /\ newLease' = DecodeLease(ZeroLease, hret.resp)
              /\ lease' = RenewOutcome(lease, hret.resp).lease
         [] op = "WatchLeases" ->
              /\ result' = WatchOutcome(hret.resp)
              /\ UNCHANGED <<lease, newLease>>
    /\ bodyClosed' = DefersClose(op)
    /\ UNCHANGED aux
    /\ UNCHANGED <<op, cursor, lease0, req, gstate, tres, c, sends,
                   ctxDone, ctxErr, cancelReqs, attempts, branch,
                   hret, aborting, hist>>

\* The operation has returned; the caller goes on to its next call.
Return ==
    /\ pc = "done"
    /\ pc' = "idle"
    /\ Cleared
    /\ lease0' = lease
    /\ UNCHANGED <<lease, aux>>

\* ------------------------------------------------------------------ specification
Next ==
    \/ \E o \in Ops, cur \in CursorValues, ctx0 \in {NoErr} \cup CtxErrors,
          mf \in BOOLEAN, bu \in BOOLEAN :
            Call(o, cur, ctx0, mf, bu)
    \/ Spawn
    \/ SelectDone
    \/ SelectRecv
    \/ \E reacts \in BOOLEAN : CancelRequest(reacts)
    \/ Drain
    \/ GoDo
    \/ \E r \in ResultsFor(op) : TransportComplete(r)
    \/ TransportAbort
    \/ GoSend
    \/ \E e \in CtxErrors : Cancel(e)
    \/ CheckErr
    \/ CheckStatus
    \/ Decode
    \/ Return

Spec == Init /\ [][Next]_vars

\* The steps of the caller's goroutine and of the goroutine httpDo starts.
CallerStep ==
    \/ Spawn
    \/ SelectDone
    \/ SelectRecv
    \/ \E reacts \in BOOLEAN : CancelRequest(reacts)
    \/ Drain
    \/ CheckErr
    \/ CheckStatus
    \/ Decode

GoStep == GoDo \/ GoSend

\* Go's scheduler runs every goroutine that can run, and a transport that is
\* aborting a request does end it.  Nothing makes the server answer, the
\* context fire or the caller call again.
LiveSpec ==
    /\ Spec
    /\ WF_vars(CallerStep)
    /\ WF_vars(GoStep)
    /\ WF_vars(TransportAbort)

\* ------------------------------------------------------------------ a watching caller
\* A caller that only watches: it passes nil to its first WatchLeases and
\* afterwards the cursor of its last successful WatchResult.
WatchCall(ctx0, badURL) == Call("WatchLeases", lastCursor, ctx0, FALSE, badURL)

\* WatchLeases has returned; the caller keeps the cursor of a successful
\* WatchResult for its next call.
WatchReturn ==
    /\ pc = "done"
    /\ pc' = "idle"
    /\ Cleared
    /\ lease0' = lease
    /\ lastCursor' = IF result.err = NoErr THEN result.val.Cursor ELSE lastCursor
    /\ UNCHANGED <<lease, u, k>>

NextWatch ==
    \/ \E ctx0 \in {NoErr} \cup CtxErrors, bu \in BOOLEAN : WatchCall(ctx0, bu)
    \/ Spawn
    \/ SelectDone
    \/ SelectRecv
    \/ \E reacts \in BOOLEAN : CancelRequest(reacts)
    \/ Drain
    \/ GoDo
    \/ \E r \in ResultsFor(op) : TransportComplete(r)
    \/ TransportAbort
    \/ GoSend
    \/ \E e \in CtxErrors : Cancel(e)
    \/ CheckErr
    \/ CheckStatus
    \/ Decode
    \/ WatchReturn

SpecWatch == Init /\ [][NextWatch]_vars


\* ------------------------------------------------------------------ addresses
\* Strings are sequences of characters.  "/" and "." are the characters path
\* treats specially; every other character stands for itself, and a word
\* such as "leases" is written as one character.

\* The longest network name tried.
MaxNetLen == 3

\* The characters of a network name.
NetChars == {"/", ".", "_", "foo"}

\* Every string over chars of length at most n.
RECURSIVE StringsUpTo(_, _)
StringsUpTo(chars, n) ==
    IF n = 0 THEN {<<>>}
    ELSE LET shorter == StringsUpTo(chars, n - 1)
         IN shorter \cup {Append(t, ch) : t \in shorter, ch \in chars}

NetStrings == StringsUpTo(NetChars, MaxNetLen)

\* m.base: "http://" + listenAddr + "/v1"
Base == <<"http://host/v1">>

\* lease.Key(): a subnet written out, dots within.
LeaseKeys == {<<"key">>, <<"10", ".", "0">>}

\* out.w--; for out.w > dotdot && out.index(out.w) != '/' { out.w-- }
RECURSIVE CleanBacktrack(_, _, _)
CleanBacktrack(out, w, dotdot) ==
    IF w > dotdot /\ out[w + 1] # "/" THEN CleanBacktrack(out, w - 1, dotdot)
    ELSE SubSeq(out, 1, w)

\* The index after the path element that starts at r.
RECURSIVE ElementEnd(_, _)
ElementEnd(path, r) ==
    IF r > Len(path) \/ path[r] = "/" THEN r ELSE ElementEnd(path, r + 1)

\* The loop of path.Clean: r reads path, out is what has been written.
RECURSIVE CleanLoop(_, _, _, _, _)
CleanLoop(path, r, out, dotdot, rooted) ==
    IF r > Len(path) THEN out
    ELSE IF path[r] = "/" THEN CleanLoop(path, r + 1, out, dotdot, rooted)
    ELSE IF path[r] = "." /\ (r = Len(path) \/ path[r + 1] = "/")
    THEN CleanLoop(path, r + 1, out, dotdot, rooted)
    ELSE IF path[r] = "." /\ path[r + 1] = "."
              /\ (r + 1 = Len(path) \/ path[r + 2] = "/")
    THEN IF Len(out) > dotdot
         THEN CleanLoop(path, r + 2, CleanBacktrack(out, Len(out) - 1, dotdot),
                        dotdot, rooted)
         ELSE IF ~rooted
         THEN LET o2 == (IF Len(out) > 0 THEN Append(out, "/") ELSE out)
                           \o <<".", ".">>
              IN CleanLoop(path, r + 2, o2, Len(o2), rooted)
         ELSE CleanLoop(path, r + 2, out, dotdot, rooted)
    ELSE LET o1 == IF (rooted /\ Len(out) # 1) \/ (~rooted /\ Len(out) # 0)
                   THEN Append(out, "/") ELSE out
             e == ElementEnd(path, r)
         IN CleanLoop(path, e, o1 \o SubSeq(path, r, e - 1), dotdot, rooted)

\* path.Clean
Clean(path) ==
    IF path = <<>> THEN <<".">>
    ELSE LET rooted == path[1] = "/"
             res == CleanLoop(path, IF rooted THEN 2 ELSE 1,
                              IF rooted THEN <<"/">> ELSE <<>>,
                              IF rooted THEN 1 ELSE 0, rooted)
         IN IF res = <<>> THEN <<".">> ELSE res

\* strings.Join(elems, "/")
RECURSIVE JoinSlash(_)
JoinSlash(elems) ==
    IF elems = <<>> THEN <<>>
    ELSE IF Len(elems) = 1 THEN elems[1]
    ELSE elems[1] \o <<"/">> \o JoinSlash(Tail(elems))

\* path.Join: the elements from the first non-empty one on, joined and cleaned.
RECURSIVE Join(_)
Join(elems) ==
    IF elems = <<>> THEN <<>>
    ELSE IF elems[1] # <<>> THEN Clean(JoinSlash(elems))
    ELSE Join(Tail(elems))

\* mkurl without the leading separator: the network is joined as it is.
mkurlNoSeparator(network, parts) ==
    LET n1 == IF network = <<>> THEN <<"/", "_">> ELSE network
    IN Base \o Join(<<n1>> \o parts)

\* RemoteManager.mkurl
mkurl(network, parts) ==
    LET n1 == IF network = <<>> THEN <<"/", "_">> ELSE network
        n2 == IF n1[1] # "/" THEN <<"/">> \o n1 ELSE n1
    IN Base \o Join(<<n2>> \o parts)

\* The trailing parts each operation hands to mkurl.
ConfigParts == << <<"config">> >>

AcquireParts == << <<"leases", "/">> >>

RenewParts(key) == << <<"leases">>, key >>

WatchParts == << <<"leases">> >>

\* Other lists of trailing parts: none, an empty part, parts with separators
\* of their own, parts that are dot elements.
OtherPartLists ==
    { <<>>,
      << <<>>, <<"config">> >>,
      << <<"/", "leases">>, <<"key", "/">> >>,
      << <<"leases", "/", "/", "key">> >>,
      << <<".">>, <<"config">> >>,
      << <<"leases">>, <<".", ".">>, <<"config">> >> }

\* fmt.Sprintf("%v?next=%v", url, c)
WithNext(addr, cur) ==
    IF cur = NilCursor THEN addr ELSE addr \o <<"?next=">> \o <<cur.v>>

\* The address of an operation's request: addr is what mkurl returned, url
\* what the request is made for.
Built(o, network, parts, addr, url) ==
    [pc |-> "built", op |-> o, network |-> network, parts |-> parts,
     addr |-> addr, url |-> url]

\* url := m.mkurl(network, "config")
UrlGetNetworkConfig ==
    /\ u.pc = "input"
    /\ u' = Built("GetNetworkConfig", u.network, ConfigParts,
                  mkurl(u.network, ConfigParts), mkurl(u.network, ConfigParts))
    /\ UNCHANGED <<op, cursor, lease, lease0, pc, req, gstate, tres, c, sends,
                   ctxDone, ctxErr, cancelReqs, attempts, branch, hret,
                   newLease, decoded, aborting, bodyClosed, result, hist,
                   lastCursor, k>>

\* url := m.mkurl(network, "leases/")
UrlAcquireLease ==
    /\ u.pc = "input"
    /\ u' = Built("AcquireLease", u.network, AcquireParts,
                  mkurl(u.network, AcquireParts), mkurl(u.network, AcquireParts))
    /\ UNCHANGED <<op, cursor, lease, lease0, pc, req, gstate, tres, c, sends,
                   ctxDone, ctxErr, cancelReqs, attempts, branch, hret,
                   newLease, decoded, aborting, bodyClosed, result, hist,
                   lastCursor, k>>

\* url := m.mkurl(network, "leases", lease.Key())
UrlRenewLease(key) ==
    /\ u.pc = "input"
    /\ key \in LeaseKeys
    /\ u' = Built("RenewLease", u.network, RenewParts(key),
                  mkurl(u.network, RenewParts(key)),
                  mkurl(u.network, RenewParts(key)))
    /\ UNCHANGED <<op, cursor, lease, lease0, pc, req, gstate, tres, c, sends,
                   ctxDone, ctxErr, cancelReqs, attempts, branch, hret,
                   newLease, decoded, aborting, bodyClosed, result, hist,
                   lastCursor, k>>

\* url := m.mkurl(network, "leases"); url = fmt.Sprintf("%v?next=%v", url, c)
UrlWatchLeases(cur) ==
    /\ u.pc = "input"
    /\ cur \in {NilCursor} \cup StringCursors
    /\ u' = Built("WatchLeases", u.network, WatchParts,
                  mkurl(u.network, WatchParts),
                  WithNext(mkurl(u.network, WatchParts), cur))
    /\ UNCHANGED <<op, cursor, lease, lease0, pc, req, gstate, tres, c, sends,
                   ctxDone, ctxErr, cancelReqs, attempts, branch, hret,
                   newLease, decoded, aborting, bodyClosed, result, hist,
                   lastCursor, k>>

\* m.mkurl(network, parts...) on a list of parts no operation passes.
Mkurl(parts) ==
    /\ u.pc = "input"
    /\ parts \in OtherPartLists
    /\ u' = Built("mkurl", u.network, parts, mkurl(u.network, parts),
                  mkurl(u.network, parts))
    /\ UNCHANGED <<op, cursor, lease, lease0, pc, req, gstate, tres, c, sends,
                   ctxDone, ctxErr, cancelReqs, attempts, branch, hret,
                   newLease, decoded, aborting, bodyClosed, result, hist,
                   lastCursor, k>>

\* A network identifier is about to be handed to an operation.
InitUrl ==
    /\ InitCall
    /\ lastCursor = NilCursor
    /\ k = NoCalls
    /\ u \in {[pc |-> "input", network |-> n] : n \in NetStrings}

NextUrl ==
    \/ UrlGetNetworkConfig
    \/ UrlAcquireLease
    \/ \E key \in LeaseKeys : UrlRenewLease(key)
    \/ \E cur \in {NilCursor} \cup StringCursors : UrlWatchLeases(cur)
    \/ \E parts \in OtherPartLists : Mkurl(parts)

SpecUrl == InitUrl /\ [][NextUrl]_vars

\* ------------------------------------------------------------ concurrent calls
\* Several calls on one RemoteManager at once, each reduced to its httpDo:
\* what a call shares with the others, and what it does not.

\* The number of concurrent calls.
NumCalls == 2

Calls == 1..NumCalls

\* The outcomes of client.Do: a response, an error of its own, or the error of
\* a request aborted by CancelRequest.
DoKinds == {"resp", "err", "aborted"}

\* A call that has not started: no goroutine, nothing returned.
IdleCall == [pc |-> "idle", g |-> "none", res |-> "none", aborting |-> FALSE,
             ret |-> [kind |-> "none", from |-> 0]]

\* Every call reads and writes one channel.
ChanShared(i) == 1

\* c := make(chan httpRespErr, 1): a channel of the call's own.
ChanOf(i) == i

\* The variables of the single-call model.
single == <<op, cursor, lease, lease0, pc, req, gstate, tres, c, sends, ctxDone,
            ctxErr, cancelReqs, attempts, branch, hret, newLease, decoded,
            aborting, bodyClosed, result, hist>>

\* httpDo is entered: tr, client and c are made, go func() started.
ConcCall(i) ==
    /\ k.call[i].pc = "idle"
    /\ k' = [k EXCEPT !.call[i].pc = "select", !.call[i].g = "doing"]
    /\ UNCHANGED <<single, lastCursor, u>>

\* The context of call i is cancelled.
ConcCancel(i) ==
    /\ ~k.ctxDone[i]
    /\ k' = [k EXCEPT !.ctxDone[i] = TRUE]
    /\ UNCHANGED <<single, lastCursor, u>>

\* client.Do(req) of call i returns; an aborted request may return as such.
ConcDo(i, kind) ==
    /\ k.call[i].g = "doing"
    /\ kind \in DoKinds
    /\ kind = "aborted" => k.call[i].aborting
    /\ k' = [k EXCEPT !.call[i].g = "completed", !.call[i].res = kind]
    /\ UNCHANGED <<single, lastCursor, u>>

\* c <- httpRespErr{resp, err}
ConcSend(i) ==
    /\ k.call[i].g = "completed"
    /\ Len(k.chan[ChanOf(i)]) < ChanCap
    /\ k' = [k EXCEPT !.chan[ChanOf(i)] =
                          Append(@, [from |-> i, kind |-> k.call[i].res]),
                      !.call[i].g = "finished"]
    /\ UNCHANGED <<single, lastCursor, u>>

\* case <-ctx.Done(): tr.CancelRequest(req)
ConcSelectDone(i) ==
    /\ k.call[i].pc = "select"
    /\ k.ctxDone[i]
    /\ k' = [k EXCEPT !.call[i].pc = "drain", !.call[i].aborting = TRUE]
    /\ UNCHANGED <<single, lastCursor, u>>

\* <-c; return nil, ctx.Err()
ConcDrain(i) ==
    /\ k.call[i].pc = "drain"
    /\ k.chan[ChanOf(i)] # <<>>
    /\ k' = [k EXCEPT !.chan[ChanOf(i)] = Tail(@),
                      !.call[i].pc = "returned",
                      !.call[i].ret = [kind |-> "ctxerr", from |-> i]]
    /\ UNCHANGED <<single, lastCursor, u>>

\* case r := <-c: return r.resp, r.err
ConcSelectRecv(i) ==
    /\ k.call[i].pc = "select"
    /\ k.chan[ChanOf(i)] # <<>>
    /\ k' = [k EXCEPT !.chan[ChanOf(i)] = Tail(@),
                      !.call[i].pc = "returned",
                      !.call[i].ret = Head(k.chan[ChanOf(i)])]
    /\ UNCHANGED <<single, lastCursor, u>>

\* One manager, no call started, no context cancelled, every channel empty.
InitConc ==
    /\ InitCall
    /\ lastCursor = NilCursor
    /\ u = NoUrl
    /\ k = [pc |-> "calls", base |-> Base,
            ctxDone |-> [i \in Calls |-> FALSE],
            chan |-> [i \in Calls |-> <<>>],
            call |-> [i \in Calls |-> IdleCall]]

NextConc ==
    \E i \in Calls :
        \/ ConcCall(i)
        \/ ConcCancel(i)
        \/ \E kind \in DoKinds : ConcDo(i, kind)
        \/ ConcSend(i)
        \/ ConcSelectDone(i)
        \/ ConcDrain(i)
        \/ ConcSelectRecv(i)

SpecConc == InitConc /\ [][NextConc]_vars

\* ------------------------------------------------------------------ claims
\* A call is in progress.
InCall == pc \notin {"idle", "done"}

\* httpDo has returned to the operation that called it.
HttpDoReturned == branch # "none" /\ pc \in {"ret", "status", "decode", "done"}

\* return nil, ctx.Err()
CancellationOutcome == [resp |-> NilPtr, err |-> ctxErr]

\* C1: when httpDo has returned, on either select branch, the goroutine it
\* started has completed its one client.Do call and has sent the result on
\* the channel; no goroutine is left running.
C1_NoGoroutineLeftRunning ==
    HttpDoReturned => gstate = "finished" /\ attempts = 1 /\ sends = 1

\* C1 witness: httpDo returned on the cancellation branch although the
\* transport did not abort: client.Do ended on its own with a response.
C1_Witness ==
    /\ pc = "ret"
    /\ branch = "done"
    /\ cancelReqs = 1
    /\ ~aborting
    /\ tres.resp # NilPtr
    /\ gstate = "finished"

\* C2 as stated: if ctx.Done fired before client.Do completed, httpDo returns
\* (nil, ctx.Err()), however the caller's select is scheduled.
C2_Original ==
    HttpDoReturned /\ hist.doneAtComplete => hret = CancellationOutcome

\* C2 amended: if ctx.Done fired before client.Do completed and the caller's
\* select ran while the channel was still empty, httpDo returns
\* (nil, ctx.Err()).
C2_CancelSeenFirstReturnsCtxErr ==
    HttpDoReturned /\ hist.doneAtComplete /\ hist.chanAtSelect = 0
        => hret = CancellationOutcome /\ ctxErr \in CtxErrors

\* C2 witness: the signal fired before client.Do completed, the select took
\* the cancellation branch on an empty channel, and the aborted operation
\* delivered a transport error that is not what httpDo returned.
C2_Witness ==
    /\ pc = "ret"
    /\ hist.doneAtComplete
    /\ hist.chanAtSelect = 0
    /\ tres.err = AbortError
    /\ hret.err \in CtxErrors

\* C3 as stated: if the result was placed on the channel before ctx.Done
\* fired, httpDo returns that result, even if the signal fires before the
\* caller's select runs.
C3_Original ==
    HttpDoReturned /\ ~hist.doneAtSend => hret = tres

\* C3 amended: if the result was placed on the channel before ctx.Done fired
\* and the signal has still not fired when the caller's select runs, httpDo
\* returns that result.
C3_ResultSeenFirstIsReturned ==
    HttpDoReturned /\ ~hist.doneAtSend /\ ~hist.doneAtSelect => hret = tres

\* C3 witness: a transport error was sent before any cancellation, the
\* select received it, and the signal fired only afterwards.
C3_Witness ==
    /\ pc = "ret"
    /\ branch = "recv"
    /\ ~hist.doneAtSend
    /\ ~hist.doneAtSelect
    /\ ctxDone
    /\ hret.err = ConnError

\* C4 as stated: once the cancellation signal has fired during a call, the
\* call eventually returns.
C4_Original == (ctxDone /\ InCall) ~> (pc = "done")

\* C4 amended: once the cancellation signal has fired during a call, the call
\* eventually returns if client.Do has completed, and otherwise eventually
\* returns or is blocked in httpDo's <-c on a transport that is still inside
\* client.Do and is not aborting.
C4_ReturnsOnceTransportEnds ==
    /\ (ctxDone /\ InCall /\ gstate \in {"completed", "finished"}) ~> (pc = "done")
    /\ (ctxDone /\ InCall) ~>
           (pc = "done" \/ (pc = "drain" /\ gstate = "doing" /\ ~aborting))

\* C4 witness: a cancelled call has returned the cancellation error after a
\* transport that did not abort ended on its own.
C4_Witness ==
    /\ pc = "done"
    /\ branch = "done"
    /\ ~aborting
    /\ gstate = "finished"
    /\ result.err \in CtxErrors

\* C5: httpDo returns the pair client.Do produced, unchanged, or
\* (nil, ctx.Err()); on the cancellation branch it is (nil, ctx.Err())
\* whatever was drained, on the other branch it is client.Do's pair; a
\* response never comes with the cancellation error.
C5_OneOfTwoOutcomes ==
    HttpDoReturned =>
        /\ hret = tres \/ hret = CancellationOutcome
        /\ branch = "done" => hret = CancellationOutcome /\ ctxErr \in CtxErrors
        /\ branch = "recv" => hret = tres
        /\ ~(hret.resp # NilPtr /\ hret.err \in CtxErrors)

\* C5 witness: the cancellation branch drained a successful response and
\* returned the cancellation error without it.
C5_Witness ==
    /\ pc = "ret"
    /\ branch = "done"
    /\ tres.resp # NilPtr
    /\ tres.resp.status = StatusOK
    /\ hret = CancellationOutcome

\* C6: a call makes at most one client.Do call, exactly one once httpDo has
\* returned, and none when it fails before building its request.
C6_OneAttemptPerCall ==
    /\ attempts <= 1
    /\ HttpDoReturned => attempts = 1
    /\ pc = "done" => attempts = (IF req = NilPtr THEN 0 ELSE 1)

\* C6 witness: a call has returned a failure (a transport error, a non-200
\* status, a decode error or the cancellation error) after one attempt.
C6_Witness ==
    /\ pc = "done"
    /\ attempts = 1
    /\ result.err # NoErr
    /\ result.err.kind \in {"transport", "status", "decode", "context"}

\* C7: during RenewLease the caller's lease keeps the value it had before
\* the call; when RenewLease returns an error it still has it; when it
\* returns nil every field is the field of the Lease decoded from the
\* response (a field absent from the JSON is zero).
C7_RenewAllOrNothing ==
    op = "RenewLease" =>
        /\ pc # "done" => lease = lease0
        /\ pc = "done" /\ result.err # NoErr => lease = lease0
        /\ pc = "done" /\ result.err = NoErr =>
              /\ lease = newLease
              /\ lease.Subnet = hret.resp.fields.Subnet
              /\ lease.Expiration = hret.resp.fields.Expiration

\* C7 witness: RenewLease returned a decode error for a body that carried a
\* lease field before it went wrong.
C7_Witness ==
    /\ op = "RenewLease"
    /\ pc = "done"
    /\ result.err = DecodeError
    /\ hret.resp.fields.Subnet # 0
    /\ hret.resp.fields.Subnet # lease0.Subnet

\* The response httpDo gave the operation, when it gave one.
GotResponse == HttpDoReturned /\ hret.err = NoErr

\* C8 as stated: a response of any status but 200 makes the operation return
\* the error made of the status line and the body, without a Decode and
\* without a change of the caller's lease; only 200 is a success.
C8_Original ==
    pc = "done" /\ GotResponse =>
        /\ result.err = NoErr => hret.resp.status = 200
        /\ hret.resp.status # 200 =>
              /\ result.err = StatusError(hret.resp)
              /\ result.val = NilValue(op)
              /\ ~decoded
              /\ lease = lease0

\* C8 amended: a response of any status but 200 makes the operation return
\* an error, without a Decode and without a change of the caller's lease:
\* the error made of the status line and the body when the body can be read,
\* the read failure when it cannot; only 200 is a success.
C8_Only200IsSuccess ==
    pc = "done" /\ GotResponse =>
        /\ result.err = NoErr => hret.resp.status = 200
        /\ hret.resp.status # 200 =>
              /\ ~hret.resp.readErr => result.err = StatusError(hret.resp)
              /\ hret.resp.readErr => result.err = ReadError
              /\ result.val = NilValue(op)
              /\ ~decoded
              /\ lease = lease0

\* C8 witness: RenewLease got a 204 with a readable body and returned the
\* status error.
C8_Witness ==
    /\ pc = "done"
    /\ op = "RenewLease"
    /\ GotResponse
    /\ hret.resp.status = 204
    /\ result.err.kind = "status"

\* C9: WatchLeases with a cursor that is neither nil nor a string returns the
\* usage error at once: no request is built, no goroutine started, no
\* client.Do called.
C9_BadCursorNoNetwork ==
    op = "WatchLeases" /\ cursor # NilCursor /\ cursor.type # "string" =>
        /\ pc = "done"
        /\ result = [val |-> EmptyWatchResult, err |-> CursorUsageError]
        /\ req = NilPtr
        /\ gstate = "none"
        /\ attempts = 0
        /\ sends = 0

\* C9 witness: WatchLeases was called with a number for a cursor.
C9_Witness ==
    /\ op = "WatchLeases"
    /\ cursor.type = "number"
    /\ pc = "done"

\* C10: WatchLeases returns a nil error only with a WatchResult whose cursor
\* is a string; a 200 response that decodes to a cursor of another type makes
\* it return the protocol error and an empty WatchResult.
C10_WatchCursorMustBeString ==
    op = "WatchLeases" /\ pc = "done" =>
        /\ result.err = NoErr =>
              /\ result.val.Cursor.type = "string"
              /\ result.val.Cursor = hret.resp.fields.Cursor
        /\ (GotResponse /\ hret.resp.status = 200 /\ hret.resp.valid
              /\ hret.resp.fields.Cursor.type # "string") =>
              result = [val |-> EmptyWatchResult, err |-> CursorProtocolError]

\* C10 witness: a 200 response decoded to a number for a cursor.
C10_Witness ==
    /\ op = "WatchLeases"
    /\ pc = "done"
    /\ GotResponse
    /\ hret.resp.status = 200
    /\ hret.resp.valid
    /\ hret.resp.fields.Cursor.type = "number"

\* C11: an operation returns either a non-nil error with a nil or empty
\* result and the caller's lease untouched, or a nil error with the record
\* decoded from a 200 response; never a populated result with an error, never
\* a nil result with a nil error.
C11_ResultXorError ==
    pc = "done" =>
        \/ /\ result.err # NoErr
           /\ result.val = NilValue(op)
           /\ lease = lease0
        \/ /\ result.err = NoErr
           /\ GotResponse
           /\ hret.resp.status = 200
           /\ hret.resp.valid
           /\ CASE op = "GetNetworkConfig" ->
                     result.val = [Network |-> hret.resp.fields.Network]
                [] op = "AcquireLease" ->
                     result.val = [Subnet |-> hret.resp.fields.Subnet,
                                   Expiration |-> hret.resp.fields.Expiration]
                [] op = "RenewLease" ->
                     lease = [Subnet |-> hret.resp.fields.Subnet,
                              Expiration |-> hret.resp.fields.Expiration]
                [] op = "WatchLeases" ->
                     result.val = [Cursor |-> hret.resp.fields.Cursor,
                                   Events |-> hret.resp.fields.Events]

\* C11 witness: AcquireLease returned a decode error for a body that carried
\* a lease field, and no lease with it.
C11_Witness ==
    /\ op = "AcquireLease"
    /\ pc = "done"
    /\ result.err = DecodeError
    /\ hret.resp.fields.Subnet # 0
    /\ result.val = NilPtr

\* C12: when httpDo returns a non-nil error the operation returns that very
\* error with a nil or empty result: it looks at no status and no body, and
\* makes no second attempt.
C12_ExecutorErrorVerbatim ==
    HttpDoReturned /\ hret.err # NoErr =>
        /\ pc \in {"ret", "done"}
        /\ ~decoded
        /\ attempts = 1
        /\ pc = "done" => result = [val |-> NilValue(op), err |-> hret.err]

\* C12 witness: an operation returned the transport's own error.
C12_Witness ==
    /\ pc = "done"
    /\ branch = "recv"
    /\ hret.err = ConnError
    /\ result.err = ConnError

\* C15: tr.CancelRequest is called at most once per call, only on the
\* cancellation branch after the signal was seen, and before that branch
\* drains the channel and returns; the branch that receives the result
\* never calls it.
C15_AbortOnlyOnCancellation ==
    /\ cancelReqs <= 1
    /\ cancelReqs = 1 => branch = "done" /\ ctxDone /\ hist.doneAtSelect
    /\ branch = "recv" => cancelReqs = 0
    /\ pc \in {"httpDo", "select", "cancel"} => cancelReqs = 0
    /\ pc = "drain" => cancelReqs = 1
    /\ HttpDoReturned /\ branch = "done" => cancelReqs = 1

\* C15 witness: the signal had fired when the select ran, the select took
\* the result all the same, and no abort was requested.
C15_Witness ==
    /\ pc = "ret"
    /\ branch = "recv"
    /\ hist.doneAtSelect
    /\ cancelReqs = 0

\* C17: on a response of a status other than 200 the operation returns the
\* failure of reading the body when the read fails, and otherwise the error
\* made of the status and the whole body text.
C17_ReadFailureIsTheError ==
    pc = "done" /\ GotResponse /\ hret.resp.status # StatusOK =>
        IF hret.resp.readErr
        THEN result.err = ReadError
        ELSE /\ result.err.kind = "status"
             /\ result.err.status = hret.resp.status
             /\ result.err.body = hret.resp.text

\* C17 witness: a 500 whose body could not be read.
C17_Witness ==
    /\ pc = "done"
    /\ GotResponse
    /\ hret.resp.status = 500
    /\ hret.resp.readErr
    /\ result.err = ReadError

\* httpDo is between its go statement and its return.
InHttpDo == pc \in {"select", "cancel", "drain"}

\* C19: the channel gets one message per httpDo call and never holds more
\* than one, so the goroutine's send is enabled as soon as client.Do has
\* returned; and once client.Do has returned, httpDo returns, whichever
\* select branch it takes.
C19_OneMessageNoDeadlock ==
    /\ [](/\ Len(c) <= 1
          /\ sends <= 1
          /\ gstate = "completed" => Len(c) < ChanCap
          /\ gstate = "finished" => sends = 1
          /\ HttpDoReturned => sends = 1 /\ Len(c) = 0)
    /\ (InHttpDo /\ gstate \in {"completed", "finished"}) ~> HttpDoReturned

\* C19 witness: the goroutine has sent and ended while the caller, on the
\* cancellation branch, has not yet drained the channel.
C19_Witness ==
    /\ pc = "drain"
    /\ Len(c) = 1
    /\ gstate = "finished"

\* C20: when an operation has returned, the body of the response the
\* transport delivered during the call is closed.
C20_Original ==
    pc = "done" /\ tres.resp # NilPtr => bodyClosed

\* C18: a caller that passes nil first and then the cursor of its last
\* successful WatchResult never gets the 'received non-string cursor' error:
\* the cursor it holds is always nil or a string, because a successful
\* WatchLeases returns a string cursor.
C18_CursorChainNeverRejected ==
    /\ lastCursor = NilCursor \/ lastCursor.type = "string"
    /\ op = "WatchLeases" => cursor = lastCursor
    /\ pc = "done" => result.err # CursorUsageError
    /\ pc = "done" /\ result.err = NoErr => result.val.Cursor.type = "string"

\* C18 witness: a call made with the cursor of an earlier WatchResult has
\* succeeded and returned another cursor.
C18_Witness ==
    /\ pc = "done"
    /\ cursor.type = "string"
    /\ lastCursor = cursor
    /\ result.err = NoErr
    /\ result.val.Cursor # cursor

\* The elements of a string between its separators, empty ones left out.
RECURSIVE Segments(_)
Segments(str) ==
    IF str = <<>> THEN <<>>
    ELSE IF str[1] = "/" THEN Segments(Tail(str))
    ELSE LET e == ElementEnd(str, 1)
         IN <<SubSeq(str, 1, e - 1)>> \o Segments(SubSeq(str, e, Len(str)))

\* The segments of every part of a list, in order.
RECURSIVE AllSegments(_)
AllSegments(parts) ==
    IF parts = <<>> THEN <<>>
    ELSE Segments(parts[1]) \o AllSegments(Tail(parts))

\* Standard path joining below a root: "." names no segment, ".." takes back
\* the segment before it.
RECURSIVE Resolve(_, _)
Resolve(segs, kept) ==
    IF segs = <<>> THEN kept
    ELSE IF segs[1] = <<".">> THEN Resolve(Tail(segs), kept)
    ELSE IF segs[1] = <<".", ".">>
    THEN Resolve(Tail(segs),
                 IF kept = <<>> THEN kept ELSE SubSeq(kept, 1, Len(kept) - 1))
    ELSE Resolve(Tail(segs), Append(kept, segs[1]))

\* What follows the base in an address.
PathOf(addr) == SubSeq(addr, Len(Base) + 1, Len(addr))

\* C13 as stated: the address AcquireLease posts to is the one mkurl returns
\* for "leases/" and ends with "/leases/", the trailing separator preserved.
C13_Original ==
    (u.pc = "built" /\ u.op = "AcquireLease") =>
        /\ u.url = mkurl(u.network, AcquireParts)
        /\ SubSeq(u.url, Len(u.url) - 2, Len(u.url)) = <<"/", "leases", "/">>

C16_CallsIndependent ==
    k.pc = "calls" =>
        /\ k.base = Base
        /\ \A i \in Calls :
              /\ k.call[i].aborting => k.ctxDone[i]
              /\ k.call[i].res = "aborted" => k.ctxDone[i]
              /\ k.call[i].ret.kind = "ctxerr" => k.ctxDone[i]
              /\ k.call[i].pc = "returned" =>
                     /\ k.call[i].ret.from = i
                     /\ k.call[i].ret.kind \in {"ctxerr", k.call[i].res}

\* Call 1 was cancelled and returned the cancellation error while call 2,
\* whose context is not cancelled, is still waiting for its request, which
\* then completes with a response.
C16_Witness ==
    /\ k.pc = "calls"
    /\ k.call[1].ret.kind = "ctxerr"
    /\ ~k.ctxDone[2]
    /\ k.call[2].pc = "select"
    /\ k.call[2].res = "resp"

====
